---- MODULE Spec2Model ----
(***************************************************************************)
(* LegalEase document assistant: the Streamlit pages                       *)
(*   src/pages/Document_Analysis.py  (session store, report cache, chat)   *)
(*   src/Document_Analysis.py, src/Contract_Comparison.py (parse_document) *)
(*                                                                         *)
(* Python values are encoded with uniform shapes so that they can be       *)
(* compared: a string is a sequence of tokens, an optional value is a      *)
(* record with a `some` flag (some = FALSE is Python's None).              *)
(***************************************************************************)
EXTENDS Integers, Sequences, FiniteSets, TLC

VARIABLES
    language,       \* value of the "Select Analysis Language" selectbox
    uploaded,       \* value of the file_uploader widget (NoFile when empty)
    file_name,      \* st.session_state.file_name
    doc_text,       \* st.session_state.doc_text
    chat,           \* st.session_state.chat
    summary_cache,  \* st.cache_data store of get_document_summary
    clause_cache,   \* st.cache_data store of get_clause_analysis
    page,           \* what the last script run rendered
    event,          \* the widget event that started the last script run
    pc,             \* "idle", or "calling" while send_message is outstanding
    inflight,       \* the question handed to send_message
    pending,        \* widget event received while the script thread is blocked
    pin,            \* parse_document: the uploaded_file argument
    pout,           \* parse_document: the value each copy returned
    root_language,       \* src/Document_Analysis.py: language selectbox
    root_uploaded,       \* src/Document_Analysis.py: file_uploader value
    root_doc_text,       \* src/Document_Analysis.py: st.session_state.doc_text
    root_chat,           \* src/Document_Analysis.py: st.session_state.chat
    root_summary_cache,  \* src/Document_Analysis.py: get_document_summary cache
    root_clause_cache,   \* src/Document_Analysis.py: get_clause_analysis cache
    root_page            \* src/Document_Analysis.py: what the last run rendered

vars == <<language, uploaded, file_name, doc_text, chat, summary_cache,
          clause_cache, page, event, pc, inflight, pending, pin, pout,
          root_language, root_uploaded, root_doc_text, root_chat,
          root_summary_cache, root_clause_cache, root_page>>

appVars == <<language, uploaded, file_name, doc_text, chat, summary_cache,
             clause_cache, page, event, pc, inflight, pending>>

parseVars == <<pin, pout>>

rootVars == <<root_language, root_uploaded, root_doc_text, root_chat,
              root_summary_cache, root_clause_cache, root_page>>

----------------------------------------------------------------------------
(* Bounds *)

\* questions asked within one chat session
MaxAsks == 2
\* pages of a generated PDF
MaxPages == 3

----------------------------------------------------------------------------
(* Python values *)

NoneText == [some |-> FALSE, text |-> <<>>]

SomeText(t) == [some |-> TRUE, text |-> t]

\* truthiness of `doc_text` in `if doc_text:` / `if not _doc_text:`
Truthy(t) == t.some /\ t.text # <<>>

NoneName == "None"

LanguageOptions == <<"English", "Spanish", "French", "German", "Japanese", "Hindi">>

\* the options the user switches between
Languages == {"English", "Spanish"}

DefaultLanguage == LanguageOptions[1]

----------------------------------------------------------------------------
(* Uploaded files.  `type` is the MIME type; a text file carries its bytes' *)
(* decoding (`readable` = valid UTF-8, `text`), a PDF whether fitz can open *)
(* it (`readable`) and, per page, whether get_text() returns or raises.     *)

Page(ok, t) == [ok |-> ok, text |-> t]

TxtFile(n, valid, t) ==
    [name |-> n, type |-> "text/plain", readable |-> valid, text |-> t, pages |-> <<>>]

PdfFile(n, opens, ps) ==
    [name |-> n, type |-> "application/pdf", readable |-> opens, text |-> <<>>, pages |-> ps]

OtherFile(n) ==
    [name |-> n, type |-> "image/png", readable |-> TRUE, text |-> <<>>, pages |-> <<>>]

NoFile == [name |-> NoneName, type |-> "none", readable |-> FALSE, text |-> <<>>, pages |-> <<>>]

RECURSIVE ConcatPages(_)
\* text = ""; for page in doc: text += page.get_text()   (no page raises)
ConcatPages(ps) ==
    IF ps = <<>> THEN <<>> ELSE Head(ps).text \o ConcatPages(Tail(ps))

RECURSIVE ConcatReadable(_)
\* the same loop with the per-page try/except: a raising page is skipped
ConcatReadable(ps) ==
    IF ps = <<>> THEN <<>>
    ELSE (IF Head(ps).ok THEN Head(ps).text ELSE <<>>) \o ConcatReadable(Tail(ps))

AllPagesOk(ps) == \A i \in 1..Len(ps) : ps[i].ok

\* src/pages/Document_Analysis.py: an exception of page.get_text() leaves the
\* loop and is caught by the function's only handler, which returns None
parse_document(f) ==
    IF f.type = "text/plain"
    THEN IF f.readable THEN SomeText(f.text) ELSE NoneText
    ELSE IF f.type = "application/pdf"
    THEN IF f.readable /\ AllPagesOk(f.pages)
         THEN SomeText(ConcatPages(f.pages))
         ELSE NoneText
    ELSE NoneText

\* src/Document_Analysis.py: the same function body
parse_document_root(f) ==
    IF f.type = "text/plain"
    THEN IF f.readable THEN SomeText(f.text) ELSE NoneText
    ELSE IF f.type = "application/pdf"
    THEN IF f.readable /\ AllPagesOk(f.pages)
         THEN SomeText(ConcatPages(f.pages))
         ELSE NoneText
    ELSE NoneText

\* src/Contract_Comparison.py: get_text() is wrapped in try/except: continue
parse_document_cmp(f) ==
    IF f.type = "text/plain"
    THEN IF f.readable THEN SomeText(f.text) ELSE NoneText
    ELSE IF f.type = "application/pdf"
    THEN IF f.readable
         THEN SomeText(ConcatReadable(f.pages))
         ELSE NoneText
    ELSE NoneText

----------------------------------------------------------------------------
(* Generated reports and the st.cache_data stores *)

NoneReport == [some |-> FALSE, doc |-> <<>>, lang |-> NoneName]

\* response.text of model.generate_content(prompt): the prompt interpolates
\* the document text and the target language
Report(d, l) == [some |-> TRUE, doc |-> d, lang |-> l]

\* st.cache_data hashes the arguments into the key, except those whose name
\* starts with an underscore: `_doc_text` is left out of the key
cache_key(_doc_text, target_language) == [lang |-> target_language]

Cached(cache, k) == {e \in cache : e.key = k}

\* body of get_document_summary / get_clause_analysis; ok = generate_content
\* returned, ~ok = it raised and the handler returned None
generate_report(_doc_text, target_language, ok) ==
    IF ~Truthy(_doc_text) THEN NoneReport
    ELSE IF ok THEN Report(_doc_text.text, target_language)
    ELSE NoneReport

\* faulty variant: a None return value is not stored
cached_call_skip_none(cache, _doc_text, target_language, ok) ==
    LET k == cache_key(_doc_text, target_language)
    IN IF Cached(cache, k) # {}
       THEN [cache |-> cache, val |-> (CHOOSE e \in Cached(cache, k) : TRUE).val,
             called |-> FALSE]
       ELSE LET v == generate_report(_doc_text, target_language, ok)
            IN [cache |-> IF v.some THEN cache \cup {[key |-> k, val |-> v]} ELSE cache,
                val |-> v, called |-> Truthy(_doc_text)]

\* a call through the st.cache_data wrapper: the stored value on a hit,
\* otherwise the body's return value, which is stored (None included).
\* called = the body reached model.generate_content
cached_call(cache, _doc_text, target_language, ok) ==
    LET k == cache_key(_doc_text, target_language)
    IN IF Cached(cache, k) # {}
       THEN [cache |-> cache, val |-> (CHOOSE e \in Cached(cache, k) : TRUE).val,
             called |-> FALSE]
       ELSE LET v == generate_report(_doc_text, target_language, ok)
            IN [cache |-> cache \cup {[key |-> k, val |-> v]}, val |-> v,
                called |-> Truthy(_doc_text)]

get_document_summary(cache, _doc_text, target_language, ok) ==
    cached_call(cache, _doc_text, target_language, ok)

get_clause_analysis(cache, _doc_text, target_language, ok) ==
    cached_call(cache, _doc_text, target_language, ok)

----------------------------------------------------------------------------
(* Chat sessions (genai ChatSession) *)

Questions == {"typed", "spoken"}

Turn(role, kind, l, d, q) == [role |-> role, kind |-> kind, lang |-> l, doc |-> d, q |-> q]

\* history[0]: instructions, "Please respond in {language}", the document text
GroundingUser(l, d) == Turn("user", "grounding", l, d, "-")

\* history[1]: "Understood ... ready to answer your questions in {language}."
GroundingAck(l) == Turn("model", "ack", l, <<>>, "-")

GroundingTurns(l, d) == <<GroundingUser(l, d), GroundingAck(l)>>

Question(q) == Turn("user", "question", "-", <<>>, q)

Reply(q) == Turn("model", "reply", "-", <<>>, q)

\* "Sorry, I encountered an API error: {e}" (rendered, never part of history)
ErrorMsg(q) == Turn("assistant", "error", "-", <<>>, q)

NoneChat == [some |-> FALSE, history |-> <<>>]

start_chat(h) == [some |-> TRUE, history |-> h]

\* faulty variant: the sent content is not recorded, only the reply
send_message_reply_only(c, q, ok) ==
    IF ok THEN [c EXCEPT !.history = @ \o <<Reply(q)>>] ELSE c

\* ChatSession.send_message: the request is built from a copy of the history
\* plus the new content; only when generate_content returns are the sent
\* content and the reply added to the session's history
send_message(c, q, ok) ==
    IF ok THEN [c EXCEPT !.history = @ \o <<Question(q), Reply(q)>>] ELSE c

\* st.session_state.chat.history[2:]
Visible(h) == SubSeq(h, 3, Len(h))

Asked(c) == Cardinality({i \in 1..Len(c.history) : c.history[i].kind = "question"})

----------------------------------------------------------------------------
(* One run of the page script over the store                               *)
(*   s = [language, uploaded, file_name, doc_text, chat, summary_cache,    *)
(*        clause_cache, page]                                              *)

\* called: the reports for which the run invoked model.generate_content
BlankPage ==
    [notice |-> "none", view |-> "none", summary |-> NoneReport,
     clauses |-> NoneReport, transcript |-> <<>>, called |-> {}]

Invoked(a, b) ==
    (IF a.called THEN {"summary"} ELSE {}) \cup (IF b.called THEN {"clauses"} ELSE {})

\* faulty variant: the callback leaves the session in place
keep_chat_session(s) == s

\* callback of the language selectbox, also called after a parsed upload
clear_chat_session(s) == [s EXCEPT !.chat = NoneChat]

\* the `if uploaded_file is not None:` block of the sidebar
Sidebar(s) ==
    IF s.uploaded # NoFile /\ s.uploaded.name # s.file_name
    THEN LET s1 == [s EXCEPT !.file_name = s.uploaded.name]
             t == parse_document(s.uploaded)
         IN IF Truthy(t)
            THEN [clear_chat_session([s1 EXCEPT !.doc_text = t])
                     EXCEPT !.page.notice = "processed"]
            ELSE [s1 EXCEPT !.doc_text = NoneText,
                            !.page.notice = IF t.some THEN "parsing" ELSE "parse_error"]
    ELSE s

\* the `if "chat" not in st.session_state or st.session_state.chat is None`
NeedsChat(s) == ~s.chat.some

\* main page: welcome text, or the reports and the chat tab up to the
\* transcript.  rerun = st.rerun() was called after start_chat
MainPage(s, okS, okC, okChat) ==
    IF ~s.doc_text.some
    THEN [s |-> [s EXCEPT !.page.view = "welcome"], rerun |-> FALSE]
    ELSE LET a == get_document_summary(s.summary_cache, s.doc_text, s.language, okS)
             b == get_clause_analysis(s.clause_cache, s.doc_text, s.language, okC)
             s1 == [s EXCEPT !.summary_cache = a.cache, !.clause_cache = b.cache,
                             !.page.summary = a.val, !.page.clauses = b.val,
                             !.page.called = Invoked(a, b)]
         IN IF NeedsChat(s1)
            THEN IF okChat
                 THEN [s |-> [s1 EXCEPT !.chat =
                                 start_chat(GroundingTurns(s1.language, s1.doc_text.text))],
                       rerun |-> TRUE]
                 ELSE [s |-> [s1 EXCEPT !.page.view = "stopped"], rerun |-> FALSE]
            ELSE [s |-> [s1 EXCEPT !.page.view = "chat",
                                   !.page.transcript = Visible(s1.chat.history)],
                  rerun |-> FALSE]

ScriptPass(s, okS, okC, okChat) ==
    MainPage(Sidebar([s EXCEPT !.page = BlankPage]), okS, okC, okChat)

\* faulty variant: every run seeds a session anew
ScriptRunReseed(s, okS, okC, okChat) ==
    LET r == ScriptPass([s EXCEPT !.chat = NoneChat], okS, okC, okChat)
    IN IF r.rerun THEN ScriptPass(r.s, okS, okC, okChat).s ELSE r.s

\* a script run, followed by the run that st.rerun() starts; the
\* invocations of both runs are kept
ScriptRun(s, okS, okC, okChat) ==
    LET r == ScriptPass(s, okS, okC, okChat)
    IN IF r.rerun
       THEN [ScriptPass(r.s, okS, okC, okChat).s EXCEPT !.page.called = @ \cup r.s.page.called]
       ELSE r.s

----------------------------------------------------------------------------
(* Widget events *)

NoPending == [kind |-> "none", lang |-> DefaultLanguage, file |-> NoFile]

LanguageEvent(l) == [kind |-> "language", lang |-> l, file |-> NoFile]

UploadEvent(f) == [kind |-> "upload", lang |-> DefaultLanguage, file |-> f]

\* the widget's new value, its on_change callback, then the script
HandleEvent(s, ev, okS, okC, okChat) ==
    IF ev.kind = "language"
    THEN ScriptRun(clear_chat_session([s EXCEPT !.language = ev.lang]), okS, okC, okChat)
    ELSE IF ev.kind = "upload"
    THEN ScriptRun([s EXCEPT !.uploaded = ev.file], okS, okC, okChat)
    ELSE ScriptRun(s, okS, okC, okChat)

\* the `if user_q:` block once send_message has returned or raised
ShowAnswer(s, q, ok) ==
    [s EXCEPT !.chat = send_message(s.chat, q, ok),
              !.page.transcript = @ \o <<IF ok THEN Reply(q) ELSE ErrorMsg(q)>>]

\* faulty variant: the reply is applied to whatever session the store holds once
\* the queued event has been served
RerunThenReturn(s, q, ok, ev, okS, okC, okChat) ==
    IF ev.kind = "none"
    THEN ShowAnswer(s, q, ok)
    ELSE LET t == HandleEvent(s, ev, okS, okC, okChat)
         IN IF t.chat.some THEN ShowAnswer(t, q, ok) ELSE t

\* send_message returns in the script thread that called it; a widget event
\* that arrived meanwhile is served afterwards, by the next script run
ReturnThenRerun(s, q, ok, ev, okS, okC, okChat) ==
    IF ev.kind = "none"
    THEN ShowAnswer(s, q, ok)
    ELSE HandleEvent(ShowAnswer(s, q, ok), ev, okS, okC, okChat)

----------------------------------------------------------------------------
(* The uploads the user chooses from *)

FileA == TxtFile("a.txt", TRUE, <<"A">>)

FileB == PdfFile("b.pdf", TRUE, <<Page(TRUE, <<"B1">>), Page(TRUE, <<"B2">>)>>)

\* a PDF whose second page makes get_text() raise
FileScan == PdfFile("scan.pdf", TRUE, <<Page(TRUE, <<"C1">>), Page(FALSE, <<>>)>>)

\* a text file of zero bytes
FileEmpty == TxtFile("empty.txt", TRUE, <<>>)

Files == {FileA, FileB, FileScan, FileEmpty}

----------------------------------------------------------------------------
(* State machine of src/pages/Document_Analysis.py *)

Store ==
    [language |-> language, uploaded |-> uploaded, file_name |-> file_name,
     doc_text |-> doc_text, chat |-> chat, summary_cache |-> summary_cache,
     clause_cache |-> clause_cache, page |-> page]

SetStore(s) ==
    /\ language' = s.language
    /\ uploaded' = s.uploaded
    /\ file_name' = s.file_name
    /\ doc_text' = s.doc_text
    /\ chat' = s.chat
    /\ summary_cache' = s.summary_cache
    /\ clause_cache' = s.clause_cache
    /\ page' = s.page

InitApp ==
    /\ language = DefaultLanguage
    /\ uploaded = NoFile
    /\ file_name = NoneName
    /\ doc_text = NoneText
    /\ chat = NoneChat
    /\ summary_cache = {}
    /\ clause_cache = {}
    /\ page = [BlankPage EXCEPT !.view = "welcome"]
    /\ event = "none"
    /\ pc = "idle"
    /\ inflight = "-"
    /\ pending = NoPending

InitParseIdle ==
    /\ pin = NoFile
    /\ pout = [pages |-> NoneText, root |-> NoneText, cmp |-> NoneText, done |-> {}]

\* the user puts a file into the uploader
Upload ==
    /\ pc = "idle"
    /\ \E f \in Files, okS, okC, okChat \in BOOLEAN :
          SetStore(HandleEvent(Store, UploadEvent(f), okS, okC, okChat))
    /\ event' = "upload"
    /\ UNCHANGED <<pc, inflight, pending, parseVars, rootVars>>

\* the user removes the file from the uploader
RemoveFile ==
    /\ pc = "idle"
    /\ uploaded # NoFile
    /\ \E okS, okC, okChat \in BOOLEAN :
          SetStore(HandleEvent(Store, UploadEvent(NoFile), okS, okC, okChat))
    /\ event' = "remove"
    /\ UNCHANGED <<pc, inflight, pending, parseVars, rootVars>>

\* the user picks another language
SelectLanguage ==
    /\ pc = "idle"
    /\ \E l \in Languages \ {language}, okS, okC, okChat \in BOOLEAN :
          SetStore(HandleEvent(Store, LanguageEvent(l), okS, okC, okChat))
    /\ event' = "language"
    /\ UNCHANGED <<pc, inflight, pending, parseVars, rootVars>>

\* a run with no widget changed (mic_recorder returning no audio, a reload
\* of the page within the session)
Rerun ==
    /\ pc = "idle"
    /\ \E okS, okC, okChat \in BOOLEAN :
          SetStore(HandleEvent(Store, NoPending, okS, okC, okChat))
    /\ event' = "rerun"
    /\ UNCHANGED <<pc, inflight, pending, parseVars, rootVars>>

\* the user submits a question (chat_input or mic_recorder, both rendered
\* only below the transcript); the run reaches send_message and blocks
AskStart ==
    /\ pc = "idle"
    /\ page.view = "chat"
    /\ Asked(chat) < MaxAsks
    /\ \E q \in Questions, okS, okC, okChat \in BOOLEAN :
          LET s == ScriptRun(Store, okS, okC, okChat)
          IN /\ SetStore([s EXCEPT !.page.transcript = @ \o <<Question(q)>>])
             /\ inflight' = q
    /\ pc' = "calling"
    /\ event' = "question"
    /\ UNCHANGED <<pending, parseVars, rootVars>>

\* the user changes the language while the call is outstanding
QueueLanguage ==
    /\ pc = "calling"
    /\ pending = NoPending
    /\ \E l \in Languages \ {language} : pending' = LanguageEvent(l)
    /\ UNCHANGED <<language, uploaded, file_name, doc_text, chat, summary_cache,
                   clause_cache, page, event, pc, inflight, parseVars, rootVars>>

\* the user uploads another file while the call is outstanding
QueueUpload ==
    /\ pc = "calling"
    /\ pending = NoPending
    /\ \E f \in Files : pending' = UploadEvent(f)
    /\ UNCHANGED <<language, uploaded, file_name, doc_text, chat, summary_cache,
                   clause_cache, page, event, pc, inflight, parseVars, rootVars>>

\* send_message returns (ok) or raises (~ok)
AskReturn ==
    /\ pc = "calling"
    /\ \E ok, okS, okC, okChat \in BOOLEAN :
          SetStore(ReturnThenRerun(Store, inflight, ok, pending, okS, okC, okChat))
    /\ event' = IF pending.kind = "language" THEN "late_language"
                ELSE IF pending.kind = "upload" THEN "late_upload"
                ELSE "question"
    /\ pc' = "idle"
    /\ inflight' = "-"
    /\ pending' = NoPending
    /\ UNCHANGED <<parseVars, rootVars>>

----------------------------------------------------------------------------
(* src/Document_Analysis.py: the page at the repository root.  It keeps   *)
(* doc_text and chat in st.session_state; a key that was never set and a  *)
(* key holding None are both `some = FALSE`, every test in the script     *)
(* treating them alike.                                                    *)

\* get_document_summary(doc_text, target_language): both arguments are hashed
root_cache_key(doc_text_arg, target_language) ==
    [doc |-> doc_text_arg, lang |-> target_language]

root_cached_call(cache, doc_text_arg, target_language, ok) ==
    LET k == root_cache_key(doc_text_arg, target_language)
    IN IF Cached(cache, k) # {}
       THEN [cache |-> cache, val |-> (CHOOSE e \in Cached(cache, k) : TRUE).val,
             called |-> FALSE]
       ELSE LET v == generate_report(doc_text_arg, target_language, ok)
            IN [cache |-> cache \cup {[key |-> k, val |-> v]}, val |-> v,
                called |-> Truthy(doc_text_arg)]

\* start_chat history: "The user uploaded this legal document:\n{doc_text}"
\* and "Understood. Ready to answer questions."; no language in either
RootGroundingTurns(d) ==
    <<Turn("user", "grounding", "-", d, "-"), Turn("model", "ack", "-", <<>>, "-")>>

\* `if uploaded_file:` block of the sidebar: parsed on every run
RootSidebar(s) ==
    IF s.uploaded # NoFile
    THEN LET t == parse_document_root(s.uploaded)
         IN [s EXCEPT !.doc_text = t,
                      !.page.notice = IF Truthy(t) THEN "processed"
                                      ELSE IF t.some THEN "none" ELSE "parse_error"]
    ELSE s

\* the `if "chat" not in st.session_state:` test
RootNeedsChat(s) == ~s.chat.some

\* main UI: the info text, or the reports and the chat tab up to the transcript
RootMainPage(s, okS, okC) ==
    IF ~Truthy(s.doc_text)
    THEN [s EXCEPT !.page.view = "welcome"]
    ELSE LET a == root_cached_call(s.summary_cache, s.doc_text, s.language, okS)
             b == root_cached_call(s.clause_cache, s.doc_text, s.language, okC)
             s1 == [s EXCEPT !.summary_cache = a.cache, !.clause_cache = b.cache,
                             !.page.summary = a.val, !.page.clauses = b.val,
                             !.page.called = Invoked(a, b)]
             s2 == IF RootNeedsChat(s1)
                   THEN [s1 EXCEPT !.chat = start_chat(RootGroundingTurns(s1.doc_text.text))]
                   ELSE s1
         IN [s2 EXCEPT !.page.view = "chat",
                       !.page.transcript = Visible(s2.chat.history)]

RootScriptRun(s, okS, okC) ==
    RootMainPage(RootSidebar([s EXCEPT !.page = BlankPage]), okS, okC)

\* the `if user_q:` block: the reply is rendered, or st.error on an exception
RootShowAnswer(s, q, ok) ==
    [s EXCEPT !.chat = send_message(s.chat, q, ok),
              !.page.transcript = @ \o <<Question(q), IF ok THEN Reply(q) ELSE ErrorMsg(q)>>]

RootStore ==
    [language |-> root_language, uploaded |-> root_uploaded,
     doc_text |-> root_doc_text, chat |-> root_chat,
     summary_cache |-> root_summary_cache, clause_cache |-> root_clause_cache,
     page |-> root_page]

SetRootStore(s) ==
    /\ root_language' = s.language
    /\ root_uploaded' = s.uploaded
    /\ root_doc_text' = s.doc_text
    /\ root_chat' = s.chat
    /\ root_summary_cache' = s.summary_cache
    /\ root_clause_cache' = s.clause_cache
    /\ root_page' = s.page

InitRoot ==
    /\ root_language = DefaultLanguage
    /\ root_uploaded = NoFile
    /\ root_doc_text = NoneText
    /\ root_chat = NoneChat
    /\ root_summary_cache = {}
    /\ root_clause_cache = {}
    /\ root_page = [BlankPage EXCEPT !.view = "welcome"]

RootUpload ==
    /\ \E f \in Files, okS, okC \in BOOLEAN :
          SetRootStore(RootScriptRun([RootStore EXCEPT !.uploaded = f], okS, okC))
    /\ UNCHANGED <<appVars, parseVars>>

RootRemoveFile ==
    /\ root_uploaded # NoFile
    /\ \E okS, okC \in BOOLEAN :
          SetRootStore(RootScriptRun([RootStore EXCEPT !.uploaded = NoFile], okS, okC))
    /\ UNCHANGED <<appVars, parseVars>>

\* the selectbox has no on_change callback
RootSelectLanguage ==
    /\ \E l \in Languages \ {root_language}, okS, okC \in BOOLEAN :
          SetRootStore(RootScriptRun([RootStore EXCEPT !.language = l], okS, okC))
    /\ UNCHANGED <<appVars, parseVars>>

RootRerun ==
    /\ \E okS, okC \in BOOLEAN : SetRootStore(RootScriptRun(RootStore, okS, okC))
    /\ UNCHANGED <<appVars, parseVars>>

\* a question is submitted below the transcript; send_message returns (ok)
\* or raises (~ok) within the run
RootAsk ==
    /\ root_page.view = "chat"
    /\ Asked(root_chat) < MaxAsks
    /\ \E q \in Questions, ok, okS, okC \in BOOLEAN :
          SetRootStore(RootShowAnswer(RootScriptRun(RootStore, okS, okC), q, ok))
    /\ UNCHANGED <<appVars, parseVars>>

NextRoot ==
    \/ RootUpload
    \/ RootRemoveFile
    \/ RootSelectLanguage
    \/ RootRerun
    \/ RootAsk

Init == InitApp /\ InitParseIdle /\ InitRoot

SpecRoot == Init /\ [][NextRoot]_vars

----------------------------------------------------------------------------
(* The three copies of parse_document applied to generated files *)

PageTexts == {<<"x">>, <<"y">>}

PageOutcomes == {Page(TRUE, t) : t \in PageTexts} \cup {Page(FALSE, <<>>)}

PageSeqs == UNION {[1..n -> PageOutcomes] : n \in 0..MaxPages}

ParseInputs ==
    {TxtFile("in.txt", v, t) : v \in BOOLEAN, t \in PageTexts \cup {<<>>}}
    \cup {PdfFile("in.pdf", o, ps) : o \in BOOLEAN, ps \in PageSeqs}
    \cup {OtherFile("in.png")}

InitParse ==
    /\ InitApp
    /\ InitRoot
    /\ pin \in ParseInputs
    /\ pout = [pages |-> NoneText, root |-> NoneText, cmp |-> NoneText, done |-> {}]

ParsePages ==
    /\ "pages" \notin pout.done
    /\ pout' = [pout EXCEPT !.pages = parse_document(pin), !.done = @ \cup {"pages"}]
    /\ UNCHANGED <<pin, appVars, rootVars>>

ParseRoot ==
    /\ "root" \notin pout.done
    /\ pout' = [pout EXCEPT !.root = parse_document_root(pin), !.done = @ \cup {"root"}]
    /\ UNCHANGED <<pin, appVars, rootVars>>

ParseCmp ==
    /\ "cmp" \notin pout.done
    /\ pout' = [pout EXCEPT !.cmp = parse_document_cmp(pin), !.done = @ \cup {"cmp"}]
    /\ UNCHANGED <<pin, appVars, rootVars>>

NextParse == ParsePages \/ ParseRoot \/ ParseCmp

SpecParse == InitParse /\ [][NextParse]_vars

Next ==
    \/ Upload
    \/ RemoveFile
    \/ SelectLanguage
    \/ Rerun
    \/ AskStart
    \/ QueueLanguage
    \/ QueueUpload
    \/ AskReturn

Spec == Init /\ [][Next]_vars

----------------------------------------------------------------------------
(* Properties *)

Last(h) == h[Len(h)]

\* a session as start_chat leaves it for the store's document and language
FreshChat(c, l, t) == c.some /\ c.history = GroundingTurns(l, t.text)

\* the step in which send_message returned, no widget event having arrived
AnswerStep == pc = "calling" /\ pc' = "idle" /\ pending.kind = "none"

\* C1: whenever a session exists, its grounding turns carry the text held in
\* doc_text and the selected language
C1_SessionMatchesStore ==
    chat.some =>
        /\ doc_text.some
        /\ chat.history[1].doc = doc_text.text
        /\ chat.history[1].lang = language
        /\ chat.history[2].lang = language

C3_FailedAskKeepsQuestion ==
    [][(AnswerStep /\ Last(page'.transcript).kind = "error") =>
           chat'.history = chat.history \o <<Question(inflight)>>]_vars

\* C4: an upload that parse_document answers with None changes neither
\* file_name nor doc_text nor chat
C4_FailedUploadKeepsStore ==
    [][(/\ pc = "idle"
        /\ event' = "upload"
        /\ uploaded' # NoFile
        /\ uploaded'.name # file_name
        /\ ~parse_document(uploaded').some) =>
           (file_name' = file_name /\ doc_text' = doc_text /\ chat' = chat)]_vars

\* C5: the summary and the clause analysis on the page were generated from
\* the text in doc_text and the selected language
C5_ReportsOfCurrentDocument ==
    page.view \in {"chat", "stopped"} =>
        /\ page.summary.some =>
              page.summary.doc = doc_text.text /\ page.summary.lang = language
        /\ page.clauses.some =>
              page.clauses.doc = doc_text.text /\ page.clauses.lang = language

OnePageRaises(f) ==
    /\ f.type = "application/pdf"
    /\ f.readable
    /\ Cardinality({i \in 1..Len(f.pages) : ~f.pages[i].ok}) = 1

OtherPagesText(f) == ConcatPages(SelectSeq(f.pages, LAMBDA p : p.ok))

\* C6: for a PDF one page of which raises, every copy of parse_document
\* returns the other pages' text in page order
C6_PageFailureSkipped ==
    OnePageRaises(pin) =>
        /\ "pages" \in pout.done => pout.pages = SomeText(OtherPagesText(pin))
        /\ "root" \in pout.done => pout.root = SomeText(OtherPagesText(pin))
        /\ "cmp" \in pout.done => pout.cmp = SomeText(OtherPagesText(pin))

\* C7: the store left by an upload that extracts to the empty string
\* differs from the store an upload that fails to extract would have left
\* in its place
C7_EmptyDistinctFromFailure ==
    [][(/\ pc = "idle"
        /\ event' = "upload"
        /\ uploaded'.name # file_name
        /\ parse_document(uploaded') = SomeText(<<>>)) =>
           \A f \in Files :
               (~parse_document(f).some /\ f.name # file_name) =>
                   LET sf == Sidebar([Store EXCEPT !.uploaded = f])
                   IN <<doc_text', chat'>> # <<sf.doc_text, sf.chat>>]_vars

\* C8: an answered question appends the user turn and then the reply: the
\* earlier turns keep their places and the visible history grows by two
C8_AnsweredAskAppendsTwo ==
    [][(AnswerStep /\ Last(page'.transcript).kind = "reply") =>
           /\ chat'.history = chat.history \o <<Question(inflight), Reply(inflight)>>
           /\ Len(Visible(chat'.history)) = Len(Visible(chat.history)) + 2
           /\ SubSeq(Visible(chat'.history), 1, Len(Visible(chat.history)))
                 = Visible(chat.history)]_vars

\* C8 witness: two questions answered in one session, in the order asked
C8_Witness ==
    /\ pc = "idle"
    /\ event = "question"
    /\ chat.some
    /\ Len(chat.history) = 6
    /\ chat.history[3] = Question("typed")
    /\ chat.history[4] = Reply("typed")
    /\ chat.history[5] = Question("spoken")
    /\ chat.history[6] = Reply("spoken")

\* C9: a run with document and language unchanged keeps the session as it
\* is, and the grounding turns are the first two turns and no others
C9_SessionReused ==
    /\ [](chat.some =>
             /\ Len(chat.history) >= 2
             /\ chat.history[1].kind = "grounding"
             /\ chat.history[2].kind = "ack"
             /\ \A i \in 3..Len(chat.history) :
                   chat.history[i].kind \in {"question", "reply"})
    /\ [][(/\ pc = "idle" /\ pc' = "idle"
           /\ chat.some
           /\ file_name' = file_name
           /\ doc_text' = doc_text
           /\ language' = language) => chat' = chat]_vars

\* C9 witness: the chat tab rendered again over a session holding answers
C9_Witness ==
    /\ event = "rerun"
    /\ page.view = "chat"
    /\ chat.some
    /\ Len(chat.history) = 4
    /\ page.transcript = Visible(chat.history)

RootChange ==
    /\ root_chat.some
    /\ \/ root_language' # root_language
       \/ /\ root_uploaded' # NoFile
          /\ root_uploaded'.name # root_uploaded.name
          /\ root_doc_text' # root_doc_text

\* C11: in the root page, after the document or the language was changed
\* the session a question can be put to is a new one, grounded in the new
\* document text and the new language
C11_RootChangeInvalidatesSession ==
    [][(RootChange /\ root_page'.view = "chat") =>
           /\ root_chat'.some
           /\ root_chat'.history[1].doc = root_doc_text'.text
           /\ root_chat'.history[1].lang = root_language'
           /\ Visible(root_chat'.history) = <<>>]_vars

\* the last run rendered the report tabs
ReportsShown == page.view \in {"chat", "stopped"}

\* the stored entry under the key of the current document and language
\* holds None
NoneStored(cache, t, l) == \E e \in Cached(cache, cache_key(t, l)) : ~e.val.some

\* C12: a report that came back None is in the cache under its key; entries
\* stay in the cache, one per key; and a request whose key holds None
\* returns None without model.generate_content being invoked
C12_FailureStaysCached ==
    /\ [](ReportsShown =>
             /\ \E e \in Cached(summary_cache, cache_key(doc_text, language)) :
                   e.val = page.summary
             /\ \E e \in Cached(clause_cache, cache_key(doc_text, language)) :
                   e.val = page.clauses)
    /\ [][/\ \A e \in summary_cache : Cached(summary_cache', e.key) = {e}
          /\ \A e \in clause_cache : Cached(clause_cache', e.key) = {e}]_vars
    /\ [][ReportsShown' =>
             /\ NoneStored(summary_cache, doc_text', language') =>
                   (~page'.summary.some /\ "summary" \notin page'.called)
             /\ NoneStored(clause_cache, doc_text', language') =>
                   (~page'.clauses.some /\ "clauses" \notin page'.called)]_vars

\* C12 witness: a summary failed for one document; another document was
\* then uploaded under the same language and the run returned the stored
\* None without a call
C12_Witness ==
    /\ event = "upload"
    /\ ReportsShown
    /\ doc_text = SomeText(<<"A">>)
    /\ NoneStored(summary_cache, doc_text, language)
    /\ ~page.summary.some
    /\ page.clauses = Report(<<"B1", "B2">>, language)
    /\ page.called = {}

====
